---- MODULE Spec2Model ----
(***************************************************************************)
(* HanNet (src/src/dlqmc/nn/hannet.py): a wavefunction ansatz.  The model  *)
(* works over one-dimensional integer coordinates, so that Euclidean       *)
(* distances are exact integers, and over integer-valued sub-networks.     *)
(* The sub-modules that hannet.py imports (pairwise_distance,              *)
(* DistanceBasis, ElectronicSchnet, LaughlinAnsatz, the asymptotic terms,  *)
(* triu_flat, the debug hook, BaseWFNet) are modelled from their           *)
(* description; HanNet.__init__, tracked_parameters and forward are        *)
(* modelled statement by statement.                                        *)
(***************************************************************************)
EXTENDS Integers, Sequences, FiniteSets, TLC

VARIABLES pc, args, self, call, tracked

vars == <<pc, args, self, call, tracked>>

\* ---------------------------------------------------------------- bounds
MaxElec == 3
MaxCoord == 2
MaxBatch == 2

\* ------------------------------------------------------------- utilities
\* Python's None; an optional value is <<>> or <<v>>.
None == <<>>

Some(v) == <<v>>

Abs(x) == IF x < 0 THEN -x ELSE x

Min(a, b) == IF a < b THEN a ELSE b

Max(a, b) == IF a < b THEN b ELSE a

\* The same sequence, held as a tuple of its values.
AsTuple(f) == f \o <<>>

RECURSIVE Sum(_)
Sum(s) == IF s = <<>> THEN 0 ELSE Head(s) + Sum(Tail(s))

RECURSIVE Prod(_)
Prod(s) == IF s = <<>> THEN 1 ELSE Head(s) * Prod(Tail(s))

RECURSIVE Flatten(_)
Flatten(ss) == IF ss = <<>> THEN <<>> ELSE Head(ss) \o Flatten(Tail(ss))

RECURSIVE Pow2(_)
Pow2(n) == IF n <= 0 THEN 1 ELSE 2 * Pow2(n - 1)

\* torch.exp on the integer model: strictly positive and increasing.
Exp(x) == Pow2(x)

\* A Python slice [lo:hi] (hi = -1 stands for an open end), clipped to the
\* sequence like Python clips it.
Slice(lo, hi) == [lo |-> lo, hi |-> hi]

Take(s, sl) ==
    LET hi == IF sl.hi = -1 THEN Len(s) ELSE Min(sl.hi, Len(s))
    IN  SubSeq(s, sl.lo + 1, hi)

\* ------------------------------------------------- imported sub-modules
\* pairwise_distance(A, B): D[i][j] = |A[i] - B[j]|.
pairwise_distance(A, B) ==
    AsTuple([i \in 1..Len(A) |-> AsTuple([j \in 1..Len(B) |-> Abs(A[i] - B[j])])])

\* DistanceBasis: a smooth feature of a distance that vanishes at the cutoff.
DistanceBasis(d) == IF d >= 3 THEN 0 ELSE (3 - d) * (3 - d)

\* triu_flat: the strict upper triangle of a square matrix, row by row.
triu_flat(M) ==
    Flatten([i \in 1..Len(M) |-> SubSeq(M[i], i + 1, Len(M[i]))])

\* Tensor indexing M[rows, cols] with two slices.
Block(M, rows, cols) ==
    LET R == Take(M, rows)
    IN  AsTuple([i \in 1..Len(R) |-> Take(R[i], cols)])

\* ElectronicSchnet.__init__(n_up, n_down, n_nuclei, ...).
ElectronicSchnet(n_up, n_down, n_nuclei) ==
    [n_up |-> n_up, n_down |-> n_down, n_nuclei |-> n_nuclei]

\* The embedding network accepts a sample of exactly n_up + n_down
\* particles and n_nuclei nuclei.
SchnetAccepts(net, basis) ==
    /\ Len(basis) = net.n_up + net.n_down
    /\ \A i \in 1..Len(basis) : Len(basis[i]) = Len(basis) + net.n_nuclei

SameSpin(net, i, j) == (i <= net.n_up) = (j <= net.n_up)

\* One embedding per particle from the distance features alone: same-spin
\* partners, opposite-spin partners and nuclei come through separate
\* channels.
SchnetEmbed(net, basis) ==
    LET n == Len(basis)
        same(i) == Sum([j \in 1..n |->
                     IF j # i /\ SameSpin(net, i, j) THEN basis[i][j] ELSE 0])
        anti(i) == Sum([j \in 1..n |->
                     IF ~SameSpin(net, i, j) THEN basis[i][j] ELSE 0])
        nuc(i) == Sum([k \in 1..net.n_nuclei |-> basis[i][n + k]])
    IN  AsTuple([i \in 1..n |-> 1 + same(i) + 2 * anti(i) + 3 * nuc(i)])

\* The orbital head get_log_dnn(embedding_dim, 1, ...): one shared
\* nonlinear scalar function of an embedding.
orbital(x) == (x * x) % 3

\* The pair network behind Concat(pair_factory(7, latent_dim)): a nonlinear
\* function of the two coordinates and their distance (3 + 3 + 1 inputs).
net_pair(a, b, d) == a * (1 + ((a + b + 2 * d) % 3))

\* nn.Sequential(odd_factory(latent_dim), nn.Sigmoid()): a bounded,
\* increasing squashing of the latent.
net_odd(z) == Max(0, Min(4, z + 2))

\* LaughlinAnsatz.forward(xs, dists): the product over pairs i < j of an odd
\* function of the antisymmetrized pair latent.
LaughlinPair(xs, dists, i, j) ==
    LET z == net_pair(xs[j], xs[i], dists[j][i]) - net_pair(xs[i], xs[j], dists[i][j])
    IN  net_odd(z) - net_odd(-z)

LaughlinAnsatz(xs, dists) ==
    LET n == Len(xs)
        row(i) == Prod([k \in 1..(n - i) |-> LaughlinPair(xs, dists, i, i + k)])
    IN  Prod([i \in 1..n |-> row(i)])

\* NuclearAsymptotic(charges, ion_pot)(dists_nuc): strictly positive.
NuclearAsymptotic(m, dists_nuc) ==
    1 + Sum(Flatten([i \in 1..Len(dists_nuc) |->
              [k \in 1..Len(dists_nuc[i]) |->
                 m.ion_potential * m.charges[k] * Max(0, 2 - dists_nuc[i][k])]]))

\* ElectronicAsymptotic(cusp)(dists): strictly positive; 1 for cusp = 0.
ElectronicAsymptotic(m, dists) ==
    1 + Sum([k \in 1..Len(dists) |-> m.cusp * Max(0, 2 - dists[k])])

\* A module object defines neither __bool__ nor __len__: it is truthy, and
\* only None is falsy.
Truthy(opt) == opt # None

\* BaseWFNet.register_geom: positions and charges must pair up.
GeomOK(geom) == Len(geom.coords) = Len(geom.charges)

\* BaseWFNet.spin_slices: (slice(None, n_up), slice(n_up, None)).
spin_slices(s) == <<Slice(0, s.n_up), Slice(s.n_up, -1)>>

\* The methods a tensor offers; calling any other name raises AttributeError.
TensorMethods == {"flatten", "squeeze", "sum"}

\* t.<method>(...) for a flattening method: Some(result), or None when the
\* attribute lookup raises.
TensorCall(M, method) ==
    IF method \in TensorMethods THEN Some(Flatten(M)) ELSE None

\* ------------------------------------------------------ HanNet.__init__
\* ElectronicAsymptotic(cusp=cusp) if cusp is not None else None
MakeAsymp(cusp) == IF cusp # None THEN Some([cusp |-> cusp[1]]) ELSE None

\* A slip: the group size compared with 0 instead of 1.
MakeAntiOffByOne(n_elec) ==
    IF n_elec > 0 THEN Some([net |-> "LaughlinAnsatz"]) ELSE None

\* LaughlinAnsatz(...) if n_elec > 1 else None
MakeAnti(n_elec) == IF n_elec > 1 THEN Some([net |-> "LaughlinAnsatz"]) ELSE None

\* A slip: n_up handed over twice.
MakeSchnetUpTwice(a) == ElectronicSchnet(a.n_up, a.n_up, Len(a.geom.coords))

\* The ElectronicSchnet(n_up, n_down, len(geom), ...) that __init__ builds.
MakeSchnet(a) == ElectronicSchnet(a.n_up, a.n_down, Len(a.geom.coords))

HanNetInit(a) ==
    [ n_up       |-> a.n_up,
      coords     |-> a.geom.coords,
      charges    |-> a.geom.charges,
      asymp_nuc  |-> [charges |-> a.geom.charges, ion_potential |-> a.ion_pot],
      asymp_same |-> MakeAsymp(a.cusp_same),
      asymp_anti |-> MakeAsymp(a.cusp_anti),
      schnet     |-> MakeSchnet(a),
      anti_up    |-> MakeAnti(a.n_up),
      anti_down  |-> MakeAnti(a.n_down) ]

\* -------------------------------------------- HanNet.tracked_parameters
\* A slip: the coefficient, not the module, tested for truth.
TrackedEntryByValue(label, asymp) ==
    IF Truthy(asymp) /\ asymp[1].cusp # 0 THEN << <<label, asymp[1].cusp>> >> ELSE <<>>

TrackedEntry(label, asymp) ==
    IF Truthy(asymp) THEN << <<label, asymp[1].cusp>> >> ELSE <<>>

tracked_parameters(s) ==
    << <<"ion_pot", s.asymp_nuc.ion_potential>> >>
        \o TrackedEntry("cusp_same", s.asymp_same)
        \o TrackedEntry("cusp_anti", s.asymp_anti)

\* ------------------------------------------------------ HanNet.forward
\* The per-sample tensors of one forward call; x is one sample of rs.
dists_elec(x) == pairwise_distance(x, x)

dists_nuc(s, x) == pairwise_distance(x, s.coords)

dists_basis(s, x) ==
    LET de == dists_elec(x)
        dn == dists_nuc(s, x)
    IN  AsTuple([i \in 1..Len(x) |->
           LET row == de[i] \o dn[i]
           IN  AsTuple([j \in 1..Len(row) |-> DistanceBasis(row[j])])])

\* A slip: the orbital head read off the first particle instead of summed
\* over all of them.
jastrowFirstOnly(s, x) ==
    LET xs == SchnetEmbed(s.schnet, dists_basis(s, x))
    IN  IF xs = <<>> THEN 0 ELSE orbital(xs[1])

\* self.orbital(xs).squeeze(dim=-1).sum(dim=-1)
jastrow(s, x) ==
    LET xs == SchnetEmbed(s.schnet, dists_basis(s, x))
    IN  Sum([i \in 1..Len(xs) |-> orbital(xs[i])])

\* The arguments of net(rs[:, idxs], dists_elec[:, idxs, idxs, None]).
AntiCoords(x, idxs) == Take(x, idxs)

AntiDists(x, idxs) == Block(dists_elec(x), idxs, idxs)

\* One pass of the loop over ('anti_up', 'anti_down'): antis[i] stays 1.0
\* when the net is absent.
anti(net, x, idxs) ==
    IF ~Truthy(net) THEN 1
    ELSE LaughlinAnsatz(AntiCoords(x, idxs), AntiDists(x, idxs))

asymp_nuc(s, x) == NuclearAsymptotic(s.asymp_nuc, dists_nuc(s, x))

\* torch.cat([triu_flat(dists_elec[:, idxs, idxs]) for idxs in spin_slices])
SameDists(s, x) ==
    triu_flat(Block(dists_elec(x), spin_slices(s)[1], spin_slices(s)[1]))
        \o triu_flat(Block(dists_elec(x), spin_slices(s)[2], spin_slices(s)[2]))

asymp_same(s, x) ==
    IF Truthy(s.asymp_same)
    THEN ElectronicAsymptotic(s.asymp_same[1], SameDists(s, x))
    ELSE 1

\* dists_elec[:, : self.n_up, self.n_up :]
AntiBlock(s, x) == Block(dists_elec(x), Slice(0, s.n_up), Slice(s.n_up, -1))

\* The method forward calls on that block to flatten it.
AntiFlattenMethod == "flattten"

\* The argument of self.asymp_anti(...): None when evaluating it raises.
AntiArg(s, x) == TensorCall(AntiBlock(s, x), AntiFlattenMethod)

asymp_anti(s, x) ==
    IF Truthy(s.asymp_anti)
    THEN ElectronicAsymptotic(s.asymp_anti[1], AntiArg(s, x)[1])
    ELSE 1

\* A slip: the two antisymmetric factors added instead of multiplied.
amplitudeSum(a_up, a_down, j, an, as, aa) == (a_up + a_down) * Exp(j) * (an * as * aa)

\* asymp = asymp_nuc * asymp_same * asymp_anti;
\* return anti_up * anti_down * torch.exp(jastrow) * asymp
amplitude(a_up, a_down, j, an, as, aa) == a_up * a_down * Exp(j) * (an * as * aa)

\* The debug hook: NULL_DEBUG keeps nothing, a recording hook keeps every
\* scope change and every value set, in order.
Hooks == {"NULL_DEBUG", "recording"}

Recorded(debug, events) == IF debug = "recording" THEN events ELSE <<>>

Scope(label) == << <<"cd", label, <<>>>>, <<"exit", label, <<>>>> >>

SetValue(key, value) == << <<"set", key, value>> >>

\* A slip: the value read back from the hook, which the null hook never
\* kept.
ChainAssignReadBack(debug, value) ==
    IF debug = "recording" THEN value ELSE [b \in DOMAIN value |-> 0]

\* jastrow = debug['jastrow'] = value (and the three asymp_* lines alike):
\* the local name gets the value itself, whatever the hook does with it.
ChainAssign(debug, value) == value

\* What forward leaves behind when it raises; the steps not reached leave
\* no value.
Raised(err, trace, calls) ==
    [ status |-> "raised", err |-> err, out |-> <<>>, trace |-> trace,
      calls |-> calls, jastrow |-> <<>>, anti_up |-> <<>>, anti_down |-> <<>>,
      asymp_nuc |-> <<>>, asymp_same |-> <<>>, asymp_anti |-> <<>> ]

\* forward(rs, debug) on a batch rs (a sequence of samples).  A Python float
\* factor 1.0 is written as the per-sample value 1 it broadcasts to.
forward(s, rs, debug) ==
    LET B == Len(rs)
        accepted == \A b \in 1..B : SchnetAccepts(s.schnet, dists_basis(s, rs[b]))
        j == ChainAssign(debug, AsTuple([b \in 1..B |-> jastrow(s, rs[b])]))
        a_up == AsTuple([b \in 1..B |-> anti(s.anti_up, rs[b], spin_slices(s)[1])])
        a_down == AsTuple([b \in 1..B |-> anti(s.anti_down, rs[b], spin_slices(s)[2])])
        an == ChainAssign(debug, AsTuple([b \in 1..B |-> asymp_nuc(s, rs[b])]))
        as == ChainAssign(debug, AsTuple([b \in 1..B |-> asymp_same(s, rs[b])]))
        arg_raises == Truthy(s.asymp_anti) /\ \E b \in 1..B : AntiArg(s, rs[b]) = None
        aa == ChainAssign(debug, AsTuple([b \in 1..B |-> asymp_anti(s, rs[b])]))
        trace1 == Scope("schnet")
        trace2 == trace1 \o SetValue("jastrow", j)
                    \o (IF Truthy(s.anti_up) THEN Scope("anti_up") ELSE <<>>)
                    \o (IF Truthy(s.anti_down) THEN Scope("anti_down") ELSE <<>>)
                    \o SetValue("asymp_nuc", an)
                    \o SetValue("asymp_same", as)
        calls1 == <<"schnet">>
        calls2 == calls1 \o <<"orbital">>
                    \o (IF Truthy(s.anti_up) THEN <<"anti_up">> ELSE <<>>)
                    \o (IF Truthy(s.anti_down) THEN <<"anti_down">> ELSE <<>>)
                    \o <<"asymp_nuc">>
                    \o (IF Truthy(s.asymp_same) THEN <<"asymp_same">> ELSE <<>>)
    IN  IF ~accepted
        THEN Raised("ShapeError", Recorded(debug, trace1), calls1)
        ELSE IF arg_raises
        THEN Raised("AttributeError", Recorded(debug, trace2), calls2)
        ELSE [ status |-> "returned", err |-> "",
               out |-> AsTuple([b \in 1..B |->
                          amplitude(a_up[b], a_down[b], j[b], an[b], as[b], aa[b])]),
               trace |-> Recorded(debug, trace2 \o SetValue("asymp_anti", aa)),
               calls |-> calls2
                    \o (IF Truthy(s.asymp_anti) THEN <<"asymp_anti">> ELSE <<>>),
               jastrow |-> j, anti_up |-> a_up, anti_down |-> a_down,
               asymp_nuc |-> an, asymp_same |-> as, asymp_anti |-> aa ]

\* ---------------------------------------------------------- the inputs
\* Nuclear geometries: two protons at 0 and 1, and a geometry whose
\* positions and charges do not pair up.
Geoms ==
    { [coords |-> <<0, 1>>, charges |-> <<1, 1>>],
      [coords |-> <<0, 1>>, charges |-> <<1>>] }

\* cusp_same / cusp_anti: not given, given as 0, given as 1.
Cusps == {None, Some(0), Some(1)}

Coords == 0..MaxCoord

Samples(n) == [1..n -> Coords]

\* The samples offered to a model declared with N particles: every sample of
\* N particles, and samples of one particle more or one fewer placed at the
\* ends of the coordinate range.
Inputs(N) ==
    Samples(N) \cup [1..(N + 1) -> {0, MaxCoord}] \cup [1..(N - 1) -> {0, MaxCoord}]

\* A batch of B samples grown from one sample: sample b moves particle i by
\* (b - 1) * i, wrapping inside the coordinate range.
Batch(x, B) ==
    AsTuple([b \in 1..B |->
        AsTuple([i \in 1..Len(x) |-> (x[i] + (b - 1) * i) % (MaxCoord + 1)])])

\* ------------------------------------------------------------- actions
Init ==
    /\ pc = "new"
    /\ args = None
    /\ self = None
    /\ call = [made |-> FALSE]
    /\ tracked = <<>>

\* HanNet(geom, n_up, n_down, ion_pot=..., cusp_same=..., cusp_anti=...)
Construct ==
    /\ pc = "new"
    /\ \E geom \in Geoms, n_up \in 0..MaxElec, n_down \in 0..MaxElec,
          cusp_same \in Cusps, cusp_anti \in Cusps :
        /\ n_up + n_down >= 1
        /\ n_up + n_down <= MaxElec
        /\ args' = [geom |-> geom, n_up |-> n_up, n_down |-> n_down, ion_pot |-> 1,
                    cusp_same |-> cusp_same, cusp_anti |-> cusp_anti]
        /\ IF GeomOK(geom)
           THEN pc' = "ready" /\ self' = HanNetInit(args')
           ELSE pc' = "ctor_error" /\ self' = None
    /\ UNCHANGED <<call, tracked>>

\* net(rs, debug).  The caller is single-threaded: it makes one call at a
\* time and holds what the call gave until it lets go of it.
Forward ==
    /\ pc = "ready"
    /\ ~call.made
    /\ tracked = <<>>
    /\ \E x \in Inputs(args.n_up + args.n_down), B \in 1..MaxBatch, debug \in Hooks :
        LET rs == Batch(x, B)
        IN  call' = [made |-> TRUE, rs |-> rs, debug |-> debug,
                     res |-> forward(self, rs, debug)]
    /\ UNCHANGED <<pc, args, self, tracked>>

\* net.tracked_parameters()
TrackedParameters ==
    /\ pc = "ready"
    /\ ~call.made
    /\ tracked = <<>>
    /\ tracked' = tracked_parameters(self)
    /\ UNCHANGED <<pc, args, self, call>>

\* The caller drops what the last call gave.
Release ==
    /\ call.made \/ tracked # <<>>
    /\ call' = [made |-> FALSE]
    /\ tracked' = <<>>
    /\ UNCHANGED <<pc, args, self>>

Next == Construct \/ Forward \/ Release \/ TrackedParameters

Spec == Init /\ [][Next]_vars

\* ------------------------------------------------------------ the claims
\* The last forward call returned.
Returned == pc = "ready" /\ call.made /\ call.res.status = "returned"

\* The batch of the last forward call has the declared number of particles.
ShapeMatches == Len(call.rs[1]) = args.n_up + args.n_down

Swap(x, i, j) ==
    AsTuple([k \in 1..Len(x) |-> IF k = i THEN x[j] ELSE IF k = j THEN x[i] ELSE x[k]])

\* i and j are two different particles of the same spin group.
SamePair(i, j) ==
    /\ i # j
    /\ (i <= args.n_up) = (j <= args.n_up)

Particles == 1..(args.n_up + args.n_down)

\* C1: exchanging two particles of one spin group negates the amplitude: it
\* flips the sign of that group's antisymmetric factor and leaves the other
\* one, the Jastrow factor and the asymptotic factors as they were.
Antisymmetry ==
    Returned =>
        \A b \in 1..Len(call.rs) : \A i \in Particles, j \in Particles :
            (i < j /\ SamePair(i, j)) =>
                LET sw == forward(self, <<Swap(call.rs[b], i, j)>>, call.debug)
                    r == call.res
                IN  /\ sw.status = "returned"
                    /\ sw.out[1] = -r.out[b]
                    /\ sw.jastrow[1] = r.jastrow[b]
                    /\ sw.asymp_nuc[1] = r.asymp_nuc[b]
                    /\ sw.asymp_same[1] = r.asymp_same[b]
                    /\ sw.asymp_anti[1] = r.asymp_anti[b]
                    /\ IF i <= args.n_up
                       THEN sw.anti_up[1] = -r.anti_up[b] /\ sw.anti_down[1] = r.anti_down[b]
                       ELSE sw.anti_up[1] = r.anti_up[b] /\ sw.anti_down[1] = -r.anti_down[b]

\* A returned call on three up particles with a non-zero amplitude and a
\* negative antisymmetric factor, on a model with a same-spin cusp.
AntisymmetryWitness ==
    /\ Returned
    /\ args.n_up = 3
    /\ Truthy(self.asymp_same)
    /\ \E b \in 1..Len(call.rs) : call.res.out[b] # 0 /\ call.res.anti_up[b] < 0

\* C7: the returned value is anti_up * anti_down * exp(jastrow) * asymp_nuc *
\* asymp_same * asymp_anti, one scalar per sample; jastrow sums the orbital
\* head over the embeddings of all particles, the antisymmetric factors come
\* from the raw coordinates and distances of their group, the asymptotic
\* factors from raw distances.
ProductForm ==
    Returned =>
        LET r == call.res
            nu == args.n_up
            N == args.n_up + args.n_down
        IN  /\ Len(r.out) = Len(call.rs)
            /\ \A b \in 1..Len(call.rs) :
                LET x == call.rs[b]
                    D == AsTuple([i \in 1..N |->
                            AsTuple([k \in 1..N |-> Abs(x[i] - x[k])])])
                    DN == AsTuple([i \in 1..N |->
                            AsTuple([k \in 1..Len(args.geom.coords) |->
                                Abs(x[i] - args.geom.coords[k])])])
                    F == AsTuple([i \in 1..N |->
                            AsTuple([k \in 1..(N + Len(args.geom.coords)) |->
                                DistanceBasis((D[i] \o DN[i])[k])])])
                    E == SchnetEmbed(ElectronicSchnet(nu, args.n_down, Len(args.geom.coords)), F)
                    up == SubSeq(x, 1, nu)
                    down == SubSeq(x, nu + 1, N)
                    Dup == pairwise_distance(up, up)
                    Ddown == pairwise_distance(down, down)
                IN  /\ r.out[b] = r.anti_up[b] * r.anti_down[b] * Exp(r.jastrow[b])
                                    * r.asymp_nuc[b] * r.asymp_same[b] * r.asymp_anti[b]
                    /\ r.jastrow[b] = Sum([i \in 1..N |-> orbital(E[i])])
                    /\ r.anti_up[b] = IF nu >= 2 THEN LaughlinAnsatz(up, Dup) ELSE 1
                    /\ r.anti_down[b] = IF args.n_down >= 2 THEN LaughlinAnsatz(down, Ddown) ELSE 1
                    /\ r.asymp_nuc[b] =
                         NuclearAsymptotic([charges |-> args.geom.charges,
                                            ion_potential |-> args.ion_pot], DN)
                    /\ r.asymp_same[b] =
                         IF args.cusp_same = None THEN 1
                         ELSE ElectronicAsymptotic([cusp |-> args.cusp_same[1]],
                                                   triu_flat(Dup) \o triu_flat(Ddown))

\* A returned call with both kinds of factor at work: an antisymmetric
\* factor other than 0 and 1, a same-spin cusp factor above 1, two samples.
ProductFormWitness ==
    /\ Returned
    /\ Len(call.rs) = 2
    /\ args.n_up = 1 /\ args.n_down = 2
    /\ call.res.anti_down[2] = -4
    /\ call.res.asymp_same[2] > 1
    /\ call.res.jastrow[2] >= 1
    /\ call.res.out[1] # call.res.out[2]

\* C9: tracked_parameters lists ('ion_pot', ionization potential) first, then
\* 'cusp_same' if and only if cusp_same was given, then 'cusp_anti' if and
\* only if cusp_anti was given, nothing else and nothing twice; the model is
\* what the constructor built, before and after.
TrackedRule ==
    pc = "ready" =>
        /\ self = HanNetInit(args)
        /\ tracked # <<>> =>
            LET labels == [k \in 1..Len(tracked) |-> tracked[k][1]]
            IN  /\ tracked[1] = <<"ion_pot", args.ion_pot>>
                /\ labels = <<"ion_pot">>
                            \o (IF args.cusp_same # None THEN <<"cusp_same">> ELSE <<>>)
                            \o (IF args.cusp_anti # None THEN <<"cusp_anti">> ELSE <<>>)
                /\ \A k \in 2..Len(tracked) :
                    /\ tracked[k][1] = "cusp_same" => tracked[k][2] = args.cusp_same[1]
                    /\ tracked[k][1] = "cusp_anti" => tracked[k][2] = args.cusp_anti[1]

\* tracked_parameters was called on a model built with cusp_same = 0 and no
\* cusp_anti.
TrackedRuleWitness ==
    /\ pc = "ready"
    /\ args.cusp_same = Some(0)
    /\ args.cusp_anti = None
    /\ Len(tracked) = 2

\* Two particles of one spin group sit at the same coordinate in sample x.
Coincident(x) ==
    \E i \in Particles, j \in Particles : SamePair(i, j) /\ x[i] = x[j]

\* C2: on a sample where two same-spin particles coincide, forward does not
\* raise and the amplitude of that sample is 0; so it is for n_up = 2,
\* n_down = 0.
CoincidenceZero ==
    (pc = "ready" /\ call.made /\ ShapeMatches) =>
        \A b \in 1..Len(call.rs) :
            Coincident(call.rs[b]) =>
                /\ call.res.status = "returned"
                /\ call.res.out[b] = 0

\* Beside C2: a call that returns gives amplitude 0 to
\* every sample with a same-spin coincidence.
CoincidenceZeroWhenReturned ==
    Returned =>
        \A b \in 1..Len(call.rs) : Coincident(call.rs[b]) => call.res.out[b] = 0

Shift(x, v) == AsTuple([i \in 1..Len(x) |-> x[i] + v])

\* The model with every nucleus moved by v.
ShiftGeom(s, v) == [s EXCEPT !.coords = Shift(s.coords, v)]

\* C3: moving every particle and every nucleus by the same v leaves the
\* amplitude unchanged.
TranslationInvariance ==
    Returned =>
        \A b \in 1..Len(call.rs), v \in 1..MaxCoord :
            LET sh == forward(ShiftGeom(self, v), <<Shift(call.rs[b], v)>>, call.debug)
            IN  sh.status = "returned" /\ sh.out[1] = call.res.out[b]

\* Beside C3: the Jastrow and asymptotic factors are
\* unchanged by the shift (the antisymmetric factors read raw coordinates).
TranslationOfSymmetricFactors ==
    Returned =>
        \A b \in 1..Len(call.rs), v \in 1..MaxCoord :
            LET sh == forward(ShiftGeom(self, v), <<Shift(call.rs[b], v)>>, call.debug)
            IN  /\ sh.status = "returned"
                /\ sh.jastrow[1] = call.res.jastrow[b]
                /\ sh.asymp_nuc[1] = call.res.asymp_nuc[b]
                /\ sh.asymp_same[1] = call.res.asymp_same[b]
                /\ (~Truthy(self.anti_up) /\ ~Truthy(self.anti_down))
                      => sh.out[1] = call.res.out[b]

\* C4: with cusp_anti given, forward returns one amplitude per sample, and
\* the opposite-spin factor is ElectronicAsymptotic on the flattened block
\* of rows [0, n_up) and columns [n_up, end) of the distance matrix.
CuspAntiApplied ==
    (pc = "ready" /\ call.made /\ ShapeMatches /\ args.cusp_anti # None) =>
        /\ call.res.status = "returned"
        /\ Len(call.res.out) = Len(call.rs)
        /\ \A b \in 1..Len(call.rs) :
            LET x == call.rs[b]
                up == SubSeq(x, 1, args.n_up)
                down == SubSeq(x, args.n_up + 1, Len(x))
            IN  call.res.asymp_anti[b] =
                    ElectronicAsymptotic([cusp |-> args.cusp_anti[1]],
                                         Flatten(pairwise_distance(up, down)))

\* The labels of the scopes and values in the trace of the last call.
TraceLabels == { call.res.trace[k][2] : k \in 1..Len(call.res.trace) }

CallLabels == { call.res.calls[k] : k \in 1..Len(call.res.calls) }

CuspModuleRule ==
    pc = "ready" =>
        /\ Truthy(self.asymp_same) <=> args.cusp_same # None
        /\ Truthy(self.asymp_anti) <=> args.cusp_anti # None
        /\ (call.made /\ ShapeMatches) =>
            /\ call.res.status = "returned"
            /\ \A b \in 1..Len(call.rs) :
                /\ args.cusp_same = None => call.res.asymp_same[b] = 1
                /\ args.cusp_anti = None => call.res.asymp_anti[b] = 1
            /\ args.cusp_same # None => "asymp_same" \in CallLabels
            /\ args.cusp_anti # None => "asymp_anti" \in CallLabels

\* Beside C6: the rule for cusp_same, and for cusp_anti
\* when it is not given.
CuspSameRule ==
    pc = "ready" =>
        /\ Truthy(self.asymp_same) <=> args.cusp_same # None
        /\ Truthy(self.asymp_anti) <=> args.cusp_anti # None
        /\ Returned =>
            /\ args.cusp_anti = None
            /\ \A b \in 1..Len(call.rs) :
                /\ args.cusp_same = None => call.res.asymp_same[b] = 1
                /\ call.res.asymp_anti[b] = 1
            /\ args.cusp_same # None <=> "asymp_same" \in CallLabels

OtherHook(debug) == IF debug = "recording" THEN "NULL_DEBUG" ELSE "recording"

\* C8: the same model on the same batch gives the same outcome with the
\* null hook and with a recording hook; the hook is only handed the scopes
\* schnet, anti_up, anti_down (each entered and left) and the values
\* jastrow, asymp_nuc, asymp_same, asymp_anti, and the null hook keeps
\* nothing.
NonInterference ==
    (pc = "ready" /\ call.made) =>
        LET other == forward(self, call.rs, OtherHook(call.debug))
            tr == call.res.trace
        IN  /\ other.status = call.res.status
            /\ other.err = call.res.err
            /\ other.out = call.res.out
            /\ call.debug = "NULL_DEBUG" => tr = <<>>
            /\ \A k \in 1..Len(tr) :
                /\ tr[k][1] = "cd" =>
                    /\ tr[k][2] \in {"schnet", "anti_up", "anti_down"}
                    /\ k < Len(tr) /\ tr[k + 1] = <<"exit", tr[k][2], <<>>>>
                /\ tr[k][1] = "exit" => k > 1 /\ tr[k - 1] = <<"cd", tr[k][2], <<>>>>
                /\ tr[k][1] = "set" =>
                    tr[k][2] \in {"jastrow", "asymp_nuc", "asymp_same", "asymp_anti"}
            /\ (call.debug = "recording" /\ call.res.status = "returned") =>
                /\ <<"set", "jastrow", call.res.jastrow>> = tr[3]
                /\ <<"set", "asymp_anti", call.res.asymp_anti>> = tr[Len(tr)]

\* A returned call with a recording hook on a model with both antisymmetric
\* modules' scopes to enter or skip and a non-zero amplitude.
NonInterferenceWitness ==
    /\ Returned
    /\ call.debug = "recording"
    /\ args.n_up = 2
    /\ Len(call.res.trace) = 8
    /\ call.res.jastrow[1] > 0
    /\ call.res.out[1] # 0

====
